---- MODULE Spec2Model ----
(***************************************************************************)
(* A model of savethemars_firebase_dashboard.py: the store it reads        *)
(* (PLAYERS, CONVERSIONS, IAP), its helpers normalize_platform and         *)
(* format_timestamp, its fetchers, and the top-level script that runs      *)
(* bootstrap and then one section per entity kind.                         *)
(*                                                                         *)
(* Values.  A Python dict is a function from key strings to values.  A     *)
(* JSON value that is not a mapping is written Leaf.  A string that the    *)
(* code inspects character by character (a Platform tag, a formatted       *)
(* time) is a sequence of one-character strings; other strings are         *)
(* strings.  An epoch-millisecond number n is the pair                     *)
(* <<n \div 86400000, n % 86400000>> (day, millisecond of the day),        *)
(* because the years that matter to format_timestamp do not fit in       *)
(* TLC's 32-bit integers; numeric order is the lexicographic order of      *)
(* the pairs.  Python's None is None where a scalar is expected and        *)
(* NoData where a mapping is expected.                                     *)
(***************************************************************************)
EXTENDS Integers, Sequences, FiniteSets, TLC

VARIABLES
    PLAYERS,                \* the store: uid -> player node
    CONVERSIONS,            \* the store: owner uid -> (conversion id -> node)
    IAP,                    \* the store: owner uid -> (purchase id -> node)
    raises_query,           \* collections whose range query raises
    raises_lookup,          \* uids whose point lookup PLAYERS/{uid} raises
    env,                    \* what bootstrap finds: credential, endpoint, SDK outcomes
    pc,                     \* position of the top-level script
    latest_android_players, \* script globals, one per section
    latest_ios_players,
    latest_conversions,
    latest_iaps,
    reads,                  \* the store reads issued so far, in order
    shown,                  \* what the UI was given so far, in order
    fn,                     \* function-level checks: the function called,
    arg,                    \*   its argument(s),
    ret,                    \*   and what it returned
    in_flight               \* store requests sent and not yet answered

vars == <<PLAYERS, CONVERSIONS, IAP, raises_query, raises_lookup, env, pc,
          latest_android_players, latest_ios_players, latest_conversions,
          latest_iaps, reads, shown, fn, arg, ret, in_flight>>

store == <<PLAYERS, CONVERSIONS, IAP, raises_query, raises_lookup>>
script == <<env, pc, latest_android_players, latest_ios_players,
            latest_conversions, latest_iaps, shown, in_flight>>

----------------------------------------------------------------------------
(* Bounds of the model *)

\* longest raw platform tag drawn as an input of normalize_platform
MaxTagLen == 3
\* the limits a fetcher is called with are 1..MaxLimit
MaxLimit == 2
\* the store's timestamps are 1..MaxTime seconds after the epoch (or absent)
MaxTime == 2
\* the players of the player-fetch checks are the first MaxPlayers uids
MaxPlayers == 3
\* the owners of the owner-window checks are the first n uids, n <= MaxOwners
MaxOwners == 7

----------------------------------------------------------------------------
(* Python values *)

None == <<"None">>
NoData == [None |-> TRUE]
Leaf == [leaf |-> TRUE]
EmptyDict == [k \in {} |-> 0]

\* isinstance(x, dict)
isinstance_dict(x) == "leaf" \notin DOMAIN x /\ "None" \notin DOMAIN x

\* d.get(k, default)
Get(d, k, default) == IF k \in DOMAIN d THEN d[k] ELSE default

\* {**a, **b}: b's keys win
Merge(a, b) == b @@ a

\* the elements of a sequence
Range(s) == {s[i] : i \in DOMAIN s}

----------------------------------------------------------------------------
(* normalize_platform *)

Android == <<"A", "n", "d", "r", "o", "i", "d">>
iOS == <<"i", "O", "S">>
ios == <<"i", "o", "s">>

\* str.lower() on the letters the model draws
LowerChar(c) ==
    CASE c = "A" -> "a"
      [] c = "I" -> "i"
      [] c = "O" -> "o"
      [] c = "S" -> "s"
      [] OTHER -> c

lower(s) == [i \in DOMAIN s |-> LowerChar(s[i])]

\* a plausible slip: the comparison without the case folding
normalize_platform_exact(platform_value) ==
    IF platform_value = None \/ platform_value = <<>>
    THEN Android
    ELSE IF platform_value = ios THEN iOS ELSE Android

normalize_platform(platform_value) ==
    IF platform_value = None \/ platform_value = <<>>
    THEN Android
    ELSE IF lower(platform_value) = ios THEN iOS ELSE Android

----------------------------------------------------------------------------
(* format_timestamp *)

MsPerDay == 86400000
SecPerDay == 86400
\* timedelta(hours=5), in seconds
ShiftSeconds == 18000
\* datetime.max is 9999-12-31T23:59:59.999999: the last day, counted from 1970-01-01
MaxDay == 2932896

Zero == <<0, 0>>
NaN == <<-1, -1>>
\* a value that is not a number (a string): timestamp/1000 raises TypeError
NotNumeric == <<-2, -2>>

Digit == <<"0", "1", "2", "3", "4", "5", "6", "7", "8", "9">>
Digits2(n) == <<Digit[(n \div 10) + 1], Digit[(n % 10) + 1]>>
Digits4(n) == Digits2(n \div 100) \o Digits2(n % 100)

\* the proleptic Gregorian date of day z counted from 1970-01-01
CivilFromDays(z) ==
    LET s == z + 719468
        era == s \div 146097
        doe == s - era * 146097
        yoe == (doe - doe \div 1460 + doe \div 36524 - doe \div 146096) \div 365
        doy == doe - (365 * yoe + yoe \div 4 - yoe \div 100)
        mp == (5 * doy + 2) \div 153
        d == doy - (153 * mp + 2) \div 5 + 1
        m == IF mp < 10 THEN mp + 3 ELSE mp - 9
        y == yoe + era * 400 + (IF m <= 2 THEN 1 ELSE 0)
    IN  [year |-> y, month |-> m, day |-> d]

\* dt.strftime('%H:%M:%S %Y-%m-%d') of the date-time (day, second of the day)
strftime(day, sod) ==
    LET c == CivilFromDays(day) IN
    Digits2(sod \div 3600) \o <<":">> \o Digits2((sod % 3600) \div 60) \o <<":">>
        \o Digits2(sod % 60) \o <<" ">> \o Digits4(c.year) \o <<"-">>
        \o Digits2(c.month) \o <<"-">> \o Digits2(c.day)

Returned(v) == [kind |-> "return", value |-> v]
Raised(e) == [kind |-> "raise", value |-> e]

NotAvailable == <<"N", "o", "t", " ", "a", "v", "a", "i", "l", "a", "b", "l", "e">>
InvalidDate == <<"I", "n", "v", "a", "l", "i", "d", " ", "d", "a", "t", "e">>

\* pd.notna(timestamp)
notna(timestamp) == timestamp # None /\ timestamp # NaN

\* Returned(string) or Raised(exception): the host's zone is taken to be UTC.
\* datetime.fromtimestamp raises ValueError for a year after 9999 (caught);
\* dt + timedelta raises OverflowError past datetime.max (not caught).
format_timestamp(timestamp) ==
    IF notna(timestamp) /\ timestamp # Zero
    THEN IF timestamp = NotNumeric
         THEN Returned(InvalidDate)
         ELSE LET day == timestamp[1]
                  sod == timestamp[2] \div 1000
                  shifted == sod + ShiftSeconds
                  day2 == day + shifted \div SecPerDay
              IN  IF day > MaxDay
                  THEN Returned(InvalidDate)
                  ELSE IF day2 > MaxDay
                       THEN Raised("OverflowError")
                       ELSE Returned(strftime(day2, shifted % SecPerDay))
    ELSE Returned(NotAvailable)

----------------------------------------------------------------------------
(* The store, as the SDK's queries see it *)

\* the store's key order: keys are compared as strings
KeyOrder == <<"c1", "c2", "u1", "u2", "u3", "u4", "u5", "u6", "u7", "u8", "u9">>
KeyRank(k) == CHOOSE i \in DOMAIN KeyOrder : KeyOrder[i] = k

\* numeric order of two epoch-millisecond values
TsLess(a, b) == a[1] < b[1] \/ (a[1] = b[1] /\ a[2] < b[2])

\* the value orderByChild(child) indexes node n by: a node without that child
\* (or a node that is no mapping) is indexed as null, before every number
IndexOf(n, child) ==
    IF isinstance_dict(n) /\ child \in DOMAIN n THEN <<1, n[child]>> ELSE <<0, Zero>>

IndexLess(a, b) == a[1] < b[1] \/ (a[1] = b[1] /\ TsLess(a[2], b[2]))

\* the keys ks in ascending key order
RECURSIVE KeysAscending(_)
KeysAscending(ks) ==
    IF ks = {} THEN <<>>
    ELSE LET k == CHOOSE k \in ks : \A j \in ks : KeyRank(k) <= KeyRank(j)
         IN  <<k>> \o KeysAscending(ks \ {k})

\* the keys of coll in ascending order of (index value of child, key)
RECURSIVE OrderedByChild(_, _, _)
OrderedByChild(coll, ks, child) ==
    IF ks = {} THEN <<>>
    ELSE LET k == CHOOSE k \in ks : \A j \in ks :
                    \/ IndexLess(IndexOf(coll[k], child), IndexOf(coll[j], child))
                    \/ /\ IndexOf(coll[k], child) = IndexOf(coll[j], child)
                       /\ KeyRank(k) <= KeyRank(j)
         IN  <<k>> \o OrderedByChild(coll, ks \ {k}, child)

\* the last n elements of a sequence
LastN(s, n) == IF Len(s) <= n THEN s ELSE SubSeq(s, Len(s) - n + 1, Len(s))

\* s[:n]
FirstN(s, n) == IF Len(s) <= n THEN s ELSE SubSeq(s, 1, n)

\* ref.order_by_child(child).limit_to_last(n).get(): the keys of the reply, in the
\* order of the OrderedDict the SDK returns (ascending by child value, then key)
order_by_child_limit_to_last(coll, child, n) ==
    LastN(OrderedByChild(coll, DOMAIN coll, child), n)

\* ref.order_by_child(child).equal_to(value).limit_to_last(n).get(): the children
\* whose child field equals value all share one index value, so they are ordered
\* by key
order_by_child_equal_to_limit_to_last(coll, child, value, n) ==
    LastN(KeysAscending({k \in DOMAIN coll :
              isinstance_dict(coll[k]) /\ child \in DOMAIN coll[k]
                  /\ coll[k][child] = value}), n)

\* ref.limit_to_last(n).get(): the last n children in key order
limit_to_last(coll, n) == LastN(KeysAscending(DOMAIN coll), n)

----------------------------------------------------------------------------
(* list.sort(key=lambda x: x.get(field, 0), reverse=True): stable *)

\* a plausible slip: a record without the field taken for the newest
SortKey_absent_newest(x, field) == Get(x, field, <<MaxDay + 1, 0>>)

SortKey(x, field) == Get(x, field, Zero)

\* x goes after the elements whose key is not smaller than its own
InsertDesc(sorted, x, field) ==
    LET p == Cardinality({i \in DOMAIN sorted :
                 ~TsLess(SortKey(sorted[i], field), SortKey(x, field))})
    IN  SubSeq(sorted, 1, p) \o <<x>> \o SubSeq(sorted, p + 1, Len(sorted))

RECURSIVE SortDesc(_, _)
SortDesc(s, field) ==
    IF s = <<>> THEN <<>>
    ELSE InsertDesc(SortDesc(SubSeq(s, 1, Len(s) - 1), field), s[Len(s)], field)

----------------------------------------------------------------------------
(* The fetchers.  Each returns [result |-> the list returned,                *)
(* reads |-> the store reads it issued, in order].                           *)

\* the over-fetch factors and the owner window of the range queries
PlayerOverFetch == 2
ConversionOverFetch == 3
IapOwnerWindow == 100

Query(path) == <<"query", path>>
Lookup(uid) == <<"lookup", uid>>

\* {"uid": uid, **record} with Platform normalized, for the keys of data that
\* hold a mapping, in the order of data
RECURSIVE PlayerRecords(_)
PlayerRecords(data) ==
    IF data = <<>> THEN <<>>
    ELSE LET uid == data[1]
             record == PLAYERS[uid]
             player_record == Merge([uid |-> uid], record)
             normalized == [Platform |-> normalize_platform(Get(record, "Platform", None))]
         IN  (IF isinstance_dict(record) THEN <<Merge(player_record, normalized)>> ELSE <<>>)
             \o PlayerRecords(Tail(data))

fetch_latest_android_players(limit) ==
    IF "PLAYERS" \in raises_query
    THEN [result |-> <<>>, reads |-> <<Query("PLAYERS")>>]
    ELSE LET data == order_by_child_equal_to_limit_to_last(
                         PLAYERS, "Platform", <<>>, limit * PlayerOverFetch)
             android_players == SortDesc(PlayerRecords(data), "Install_time")
         IN  [result |-> FirstN(android_players, limit), reads |-> <<Query("PLAYERS")>>]

fetch_latest_ios_players(limit) ==
    IF "PLAYERS" \in raises_query
    THEN [result |-> <<>>, reads |-> <<Query("PLAYERS")>>]
    ELSE LET data == order_by_child_equal_to_limit_to_last(
                         PLAYERS, "Platform", ios, limit * PlayerOverFetch)
             ios_players == SortDesc(PlayerRecords(data), "Install_time")
         IN  [result |-> FirstN(ios_players, limit), reads |-> <<Query("PLAYERS")>>]

\* the list is returned in the order of the reply: it is not sorted
fetch_latest_players(limit) ==
    IF "PLAYERS" \in raises_query
    THEN [result |-> <<>>, reads |-> <<Query("PLAYERS")>>]
    ELSE LET data == order_by_child_limit_to_last(PLAYERS, "Install_time", limit)
         IN  [result |-> PlayerRecords(data), reads |-> <<Query("PLAYERS")>>]

fetch_players_by_source(source_value, limit) ==
    IF "PLAYERS" \in raises_query
    THEN [result |-> <<>>, reads |-> <<Query("PLAYERS")>>]
    ELSE LET data == order_by_child_equal_to_limit_to_last(
                         PLAYERS, "Source", source_value, limit * PlayerOverFetch)
             players == SortDesc(PlayerRecords(data), "Install_time")
         IN  [result |-> FirstN(players, limit), reads |-> <<Query("PLAYERS")>>]

\* the player's data with Platform normalized, or NoData when the lookup raises
\* or the reply is absent, empty or no mapping
fetch_player(uid) ==
    IF uid \in raises_lookup \/ uid \notin DOMAIN PLAYERS
    THEN NoData
    ELSE LET data == PLAYERS[uid]
         IN  IF data # EmptyDict /\ isinstance_dict(data)
             THEN Merge(data, [Platform |-> normalize_platform(Get(data, "Platform", None))])
             ELSE NoData

player_fields(player_data) ==
    [player_geo |-> Get(player_data, "Geo", ""),
     player_source |-> Get(player_data, "Source", ""),
     player_platform |-> Get(player_data, "Platform", Android),
     player_ip |-> Get(player_data, "IP", ""),
     player_wins |-> Get(player_data, "Wins", 0),
     player_impressions |-> Get(player_data, "Impressions", 0),
     player_ad_revenue |-> Get(player_data, "Ad_Revenue", 0),
     player_install_time |-> Get(player_data, "Install_time", Zero),
     player_last_impression_time |-> Get(player_data, "Last_Impression_time", Zero)]

\* one step of the enrichment loop: the record appended for event
Enhance(event) ==
    LET user_id == Get(event, "user_id", None)
        player_data == fetch_player(user_id)
    IN  IF player_data # NoData
        THEN Merge(event, player_fields(player_data))
        ELSE event

\* the events of one owner, in key order: {"user_id": .., id_key: .., **event}
RECURSIVE FlattenOwner(_, _, _, _)
FlattenOwner(user_id, user_data, ids, id_key) ==
    IF ids = <<>> THEN <<>>
    ELSE LET event_data == user_data[ids[1]]
         IN  (IF isinstance_dict(event_data)
              THEN <<Merge((id_key :> ids[1]) @@ [user_id |-> user_id], event_data)>>
              ELSE <<>>)
             \o FlattenOwner(user_id, user_data, Tail(ids), id_key)

\* the flattening loop over the reply data (owner keys, in the reply's order)
RECURSIVE Flatten(_, _, _)
Flatten(coll, data, id_key) ==
    IF data = <<>> THEN <<>>
    ELSE (IF isinstance_dict(coll[data[1]])
          THEN FlattenOwner(data[1], coll[data[1]],
                            KeysAscending(DOMAIN coll[data[1]]), id_key)
          ELSE <<>>)
         \o Flatten(coll, Tail(data), id_key)

\* the list after sort and truncation, before enrichment
SelectConversions(limit) ==
    LET data == order_by_child_limit_to_last(CONVERSIONS, "time", limit * ConversionOverFetch)
        all_conversions == Flatten(CONVERSIONS, data, "conversion_id")
    IN  FirstN(SortDesc(all_conversions, "time"), limit)

SelectIaps(limit) ==
    LET all_data == limit_to_last(IAP, IapOwnerWindow)
        all_iaps == Flatten(IAP, all_data, "purchase_id")
    IN  FirstN(SortDesc(all_iaps, "timeBought"), limit)

\* the enrichment loop: one record and one point lookup per event, in order
EnhanceAll(latest) == [i \in DOMAIN latest |-> Enhance(latest[i])]
LookupsOf(latest) == [i \in DOMAIN latest |-> Lookup(Get(latest[i], "user_id", None))]

fetch_latest_conversions_with_player_data(limit) ==
    IF "CONVERSIONS" \in raises_query
    THEN [result |-> <<>>, reads |-> <<Query("CONVERSIONS")>>]
    ELSE LET latest_conversions_ == SelectConversions(limit)
         IN  [result |-> EnhanceAll(latest_conversions_),
              reads |-> <<Query("CONVERSIONS")>> \o LookupsOf(latest_conversions_)]

fetch_latest_iap_with_player_data(limit) ==
    IF "IAP" \in raises_query
    THEN [result |-> <<>>, reads |-> <<Query("IAP")>>]
    ELSE LET latest_iaps_ == SelectIaps(limit)
         IN  [result |-> EnhanceAll(latest_iaps_),
              reads |-> <<Query("IAP")>> \o LookupsOf(latest_iaps_)]

----------------------------------------------------------------------------
(* The inputs of the specifications *)

Limits == 1..MaxLimit
Times == {<<0, 1000 * t>> : t \in 1..MaxTime}
Uids == <<"u1", "u2", "u3", "u4", "u5", "u6", "u7", "u8", "u9">>
FirstUids(n) == {Uids[i] : i \in 1..n}

\* the functions from a subset of keys to nodes
Collections(keys, nodes) == UNION {[ks -> nodes] : ks \in SUBSET keys}

\* the mappings a @@ b, the empty one (which the store cannot hold) left out
Combine(A, B) == {a @@ b : a \in A, b \in B} \ {EmptyDict}

Alphabet == {"i", "I", "o", "O", "s", "S", "x"}
Tags(n) == UNION {[1..k -> Alphabet] : k \in 0..n}
PlatformInputs == Tags(MaxTagLen) \cup {None, Android, iOS}

\* days: the epoch, a leap day, days of this century, the last day of year 9999
\* and the day after; milliseconds: the ends of the day and of the last hour
\* that the +5 h shift keeps within the day
TimestampInputs ==
    {None, NaN, NotNumeric}
    \cup {<<d, m>> : d \in {0, 1, 789, 19723, 20759, MaxDay - 1, MaxDay, MaxDay + 1},
                     m \in {0, 1, 999, 1000, 3599999, 68399999, 68400000, MsPerDay - 1}}

RawPlatforms == {<<>>, ios, iOS}
PlayerNodes ==
    {Leaf}
    \cup Combine({EmptyDict} \cup {[Platform |-> p] : p \in RawPlatforms},
                 {EmptyDict} \cup {[Install_time |-> t] : t \in Times})
    \cup {[Source |-> "ads"] @@ b : b \in {EmptyDict} \cup {[Install_time |-> t] : t \in Times}}

\* the players the enrichment looks up: a full one, one with no field read by
\* the enrichment, and the replies that are no usable mapping
FullPlayer ==
    [Geo |-> "PK", Source |-> "ads", Platform |-> ios, IP |-> "10.0.0.1", Wins |-> 3,
     Impressions |-> 7, Ad_Revenue |-> 2, Install_time |-> <<0, 1000>>,
     Last_Impression_time |-> <<0, 2000>>]
BarePlayer == [Goal |-> "level5"]

\* an event of the collection whose timestamp field is field
EventNodes(field) ==
    {Leaf}
    \cup Combine({EmptyDict} \cup {(field :> t) : t \in Times},
                 {EmptyDict, [user_id |-> "u2"], [player_geo |-> "XX"]})

\* owner u1 with events c1 and c2, owner u2 with event c1 (or no mapping at all)
DeepStores(field) ==
    {(IF DOMAIN a = {} THEN EmptyDict ELSE [u1 |-> a])
         @@ (IF b = NoData THEN EmptyDict ELSE [u2 |-> b]) :
        a \in Collections({"c1", "c2"}, EventNodes(field)),
        b \in {NoData, Leaf} \cup {[c1 |-> e] : e \in EventNodes(field)}}

\* owners u1..un, each no mapping or the owner of one event
WideStores(field) ==
    UNION {[FirstUids(n) -> {Leaf} \cup {[c1 |-> (field :> t)] : t \in Times}] :
               n \in 0..MaxOwners}

TimeField(coll) == IF coll = "IAP" THEN "timeBought" ELSE "time"

Idle ==
    /\ env = EmptyDict
    /\ pc = "call"
    /\ latest_android_players = <<>>
    /\ latest_ios_players = <<>>
    /\ latest_conversions = <<>>
    /\ latest_iaps = <<>>
    /\ reads = <<>>
    /\ shown = <<>>
    /\ fn = "idle"
    /\ ret = <<>>
    /\ in_flight = {}

EmptyStore ==
    /\ PLAYERS = EmptyDict
    /\ CONVERSIONS = EmptyDict
    /\ IAP = EmptyDict
    /\ raises_query = {}
    /\ raises_lookup = {}

----------------------------------------------------------------------------
(* normalize_platform and format_timestamp, called on drawn inputs *)

InitNormalize == Idle /\ EmptyStore /\ arg \in {<<x>> : x \in PlatformInputs}

CallNormalizePlatform ==
    /\ fn = "idle"
    /\ fn' = "normalize_platform"
    /\ ret' = <<normalize_platform(arg[1])>>
    /\ UNCHANGED <<store, script, reads, arg>>

\* normalize_platform applied to its own output: ret holds both outputs
CallNormalizePlatformAgain ==
    /\ fn = "normalize_platform"
    /\ fn' = "normalize_platform twice"
    /\ ret' = Append(ret, normalize_platform(ret[1]))
    /\ UNCHANGED <<store, script, reads, arg>>

NextNormalize == CallNormalizePlatform \/ CallNormalizePlatformAgain
SpecNormalize == InitNormalize /\ [][NextNormalize]_vars

InitFormat == Idle /\ EmptyStore /\ arg \in {<<x>> : x \in TimestampInputs \cup {Zero}}

CallFormatTimestamp ==
    /\ fn = "idle"
    /\ fn' = "format_timestamp"
    /\ ret' = format_timestamp(arg[1])
    /\ UNCHANGED <<store, script, reads, arg>>

NextFormat == CallFormatTimestamp
SpecFormat == InitFormat /\ [][NextFormat]_vars

----------------------------------------------------------------------------
(* The fetchers, called on drawn stores with drawn limits *)

\* the call of a fetcher: r is what it returned
Call(name, args, r) ==
    /\ fn = "idle"
    /\ fn' = name
    /\ arg' = args
    /\ ret' = r.result
    /\ reads' = reads \o r.reads
    /\ UNCHANGED <<store, script>>

CallFetchLatestPlayers ==
    \E limit \in Limits :
        Call("fetch_latest_players", <<limit>>, fetch_latest_players(limit))

CallFetchLatestAndroidPlayers ==
    \E limit \in Limits :
        Call("fetch_latest_android_players", <<limit>>, fetch_latest_android_players(limit))

CallFetchLatestIosPlayers ==
    \E limit \in Limits :
        Call("fetch_latest_ios_players", <<limit>>, fetch_latest_ios_players(limit))

CallFetchPlayersBySource ==
    \E limit \in Limits, source_value \in {"ads"} :
        Call("fetch_players_by_source", <<source_value, limit>>,
             fetch_players_by_source(source_value, limit))

CallFetchLatestConversions ==
    \E limit \in Limits :
        Call("fetch_latest_conversions_with_player_data", <<limit>>,
             fetch_latest_conversions_with_player_data(limit))

CallFetchLatestIap ==
    \E limit \in Limits :
        Call("fetch_latest_iap_with_player_data", <<limit>>,
             fetch_latest_iap_with_player_data(limit))

\* up to MaxPlayers players; the range query raises only over a one-player store
InitPlayers ==
    /\ Idle
    /\ arg = <<>>
    /\ CONVERSIONS = EmptyDict
    /\ IAP = EmptyDict
    /\ raises_lookup = {}
    /\ \/ /\ raises_query = {}
          /\ PLAYERS \in Collections(FirstUids(MaxPlayers), PlayerNodes)
       \/ /\ raises_query = {"PLAYERS"}
          /\ PLAYERS \in Collections(FirstUids(1), PlayerNodes)

NextPlayers ==
    \/ CallFetchLatestPlayers
    \/ CallFetchLatestAndroidPlayers
    \/ CallFetchLatestIosPlayers
    \/ CallFetchPlayersBySource

SpecPlayers == InitPlayers /\ [][NextPlayers]_vars

OtherPlayer == [Geo |-> "US", Platform |-> <<>>, Wins |-> 1]

\* the players the events' owners are looked up among
EnrichPlayers ==
    {a @@ b : a \in {EmptyDict} \cup {[u1 |-> n] : n \in {Leaf, EmptyDict, FullPlayer, BarePlayer}},
              b \in {EmptyDict, [u2 |-> OtherPlayer]}}

\* the events are in one of the two collections, the other is empty
EventsIn(coll, events) ==
    /\ CONVERSIONS = (IF coll = "CONVERSIONS" THEN events ELSE EmptyDict)
    /\ IAP = (IF coll = "IAP" THEN events ELSE EmptyDict)

\* two owners with up to three events, looked up among EnrichPlayers; the range
\* query raises only over a one-event store
InitEvents ==
    /\ Idle
    /\ arg = <<>>
    /\ \E coll \in {"CONVERSIONS", "IAP"} :
          \/ /\ raises_query = {}
             /\ raises_lookup \in {{}, {"u1"}}
             /\ PLAYERS \in EnrichPlayers
             /\ \E events \in DeepStores(TimeField(coll)) : EventsIn(coll, events)
          \/ /\ raises_query = {coll}
             /\ raises_lookup = {}
             /\ PLAYERS = [u1 |-> FullPlayer]
             /\ EventsIn(coll, [u1 |-> [c1 |-> (TimeField(coll) :> <<0, 1000>>)]])

NextEvents == CallFetchLatestConversions \/ CallFetchLatestIap

SpecEvents == InitEvents /\ [][NextEvents]_vars

\* up to MaxOwners owners, no players
InitWide ==
    /\ Idle
    /\ arg = <<>>
    /\ raises_query = {}
    /\ raises_lookup = {}
    /\ PLAYERS = EmptyDict
    /\ \E coll \in {"CONVERSIONS", "IAP"} :
          \E events \in WideStores(TimeField(coll)) : EventsIn(coll, events)

SpecWide == InitWide /\ [][NextEvents]_vars

----------------------------------------------------------------------------
(* The fetchers that sort, over records with and without the timestamp field *)

\* Android and iOS players, from source "ads" or none, with or without Install_time
SortPlayerNodes ==
    {p @@ t : p \in {[Platform |-> <<>>, Source |-> "ads"], [Platform |-> ios]},
              t \in {EmptyDict} \cup {[Install_time |-> x] : x \in Times}}

\* events with or without the timestamp field
SortEventNodes(field) == {[goal |-> "level5"]} \cup {(field :> t) : t \in Times}

\* owner u1 with up to two events and owner u2 with at most one
SortEventStores(field) ==
    {(IF DOMAIN a = {} THEN EmptyDict ELSE [u1 |-> a]) @@ b :
        a \in Collections({"c1", "c2"}, SortEventNodes(field)),
        b \in {EmptyDict} \cup {[u2 |-> [c1 |-> e]] : e \in SortEventNodes(field)}}

InitSort ==
    /\ Idle
    /\ arg = <<>>
    /\ raises_query = {}
    /\ raises_lookup = {}
    /\ \/ /\ PLAYERS \in Collections(FirstUids(MaxPlayers), SortPlayerNodes)
          /\ CONVERSIONS = EmptyDict
          /\ IAP = EmptyDict
       \/ /\ PLAYERS = [u1 |-> FullPlayer]
          /\ \E coll \in {"CONVERSIONS", "IAP"} :
                \E events \in SortEventStores(TimeField(coll)) : EventsIn(coll, events)

NextSort ==
    \/ CallFetchLatestAndroidPlayers
    \/ CallFetchLatestIosPlayers
    \/ CallFetchPlayersBySource
    \/ CallFetchLatestConversions
    \/ CallFetchLatestIap

SpecSort == InitSort /\ [][NextSort]_vars

----------------------------------------------------------------------------
(* An event fetcher step by step: the range query, then the enrichment loop,
   each store request sent and answered before the function goes on. The
   function's locals latest_conversions / latest_iaps and enhanced_conversions /
   enhanced_iaps are held in latest_conversions / latest_iaps and ret. *)

\* request number i of the call: 0 is the range query, i the lookup of latest[i]
Request(i, read) == <<i, read>>

IsIap == fn = "fetch_latest_iap_with_player_data"
Latest == IF IsIap THEN latest_iaps ELSE latest_conversions

\* conv_ref.order_by_child("time").limit_to_last(limit * 3).get() is sent
StartConversions ==
    /\ pc = "call"
    /\ fn = "idle"
    /\ \E limit \in Limits : arg' = <<limit>>
    /\ fn' = "fetch_latest_conversions_with_player_data"
    /\ reads' = Append(reads, Query("CONVERSIONS"))
    /\ in_flight' = {Request(0, Query("CONVERSIONS"))}
    /\ pc' = "range query"
    /\ UNCHANGED <<store, env, latest_android_players, latest_ios_players,
                   latest_conversions, latest_iaps, shown, ret>>

\* iap_ref.limit_to_last(100).get() is sent
StartIaps ==
    /\ pc = "call"
    /\ fn = "idle"
    /\ \E limit \in Limits : arg' = <<limit>>
    /\ fn' = "fetch_latest_iap_with_player_data"
    /\ reads' = Append(reads, Query("IAP"))
    /\ in_flight' = {Request(0, Query("IAP"))}
    /\ pc' = "range query"
    /\ UNCHANGED <<store, env, latest_android_players, latest_ios_players,
                   latest_conversions, latest_iaps, shown, ret>>

\* the range query is answered: it raises (the function returns []), or its
\* reply is flattened, sorted and truncated
QueryReplies ==
    /\ pc = "range query"
    /\ in_flight' = {}
    /\ ret' = <<>>
    /\ IF (IF IsIap THEN "IAP" ELSE "CONVERSIONS") \in raises_query
       THEN pc' = "return" /\ UNCHANGED <<latest_conversions, latest_iaps>>
       ELSE /\ pc' = "loop"
            /\ IF IsIap
               THEN latest_iaps' = SelectIaps(arg[1]) /\ UNCHANGED latest_conversions
               ELSE latest_conversions' = SelectConversions(arg[1]) /\ UNCHANGED latest_iaps
    /\ UNCHANGED <<store, env, latest_android_players, latest_ios_players, shown,
                   reads, fn, arg>>

\* the lookups the loop has yet to make all sent together: a plausible slip
\* (a batched or concurrent enrichment)
SendLookup_all_at_once ==
    /\ pc = "loop"
    /\ Len(ret) < Len(Latest)
    /\ LET rest == (Len(ret) + 1)..Len(Latest)
           sent == [j \in 1..(Len(Latest) - Len(ret)) |->
                       Lookup(Get(Latest[Len(ret) + j], "user_id", None))]
       IN  /\ reads' = reads \o sent
           /\ in_flight' = {Request(i, Lookup(Get(Latest[i], "user_id", None))) : i \in rest}
    /\ pc' = "point lookup"
    /\ UNCHANGED <<store, env, latest_android_players, latest_ios_players,
                   latest_conversions, latest_iaps, shown, fn, arg, ret>>

\* next iteration: fetch_player(conversion.get("user_id")) sends PLAYERS/{uid}
SendLookup ==
    /\ pc = "loop"
    /\ Len(ret) < Len(Latest)
    /\ LET i == Len(ret) + 1
           user_id == Get(Latest[i], "user_id", None)
       IN  /\ reads' = Append(reads, Lookup(user_id))
           /\ in_flight' = in_flight \cup {Request(i, Lookup(user_id))}
    /\ pc' = "point lookup"
    /\ UNCHANGED <<store, env, latest_android_players, latest_ios_players,
                   latest_conversions, latest_iaps, shown, fn, arg, ret>>

\* the lookup is answered (or raises) and the event, enhanced or as it was, is
\* appended to the result
LookupReplies ==
    /\ pc = "point lookup"
    /\ LET i == Len(ret) + 1
       IN  /\ in_flight' = in_flight \ {Request(i, Lookup(Get(Latest[i], "user_id", None)))}
           /\ ret' = Append(ret, Enhance(Latest[i]))
    /\ pc' = "loop"
    /\ UNCHANGED <<store, env, latest_android_players, latest_ios_players,
                   latest_conversions, latest_iaps, shown, reads, fn, arg>>

\* the loop is over: return enhanced_conversions / enhanced_iaps
ReturnEnhanced ==
    /\ pc = "loop"
    /\ Len(ret) = Len(Latest)
    /\ pc' = "return"
    /\ UNCHANGED <<store, in_flight, env, latest_android_players, latest_ios_players,
                   latest_conversions, latest_iaps, shown, reads, fn, arg, ret>>

\* events with a timestamp, or with a user_id field of their own
EnrichNodes(field) == {(field :> t) : t \in Times} \cup {[user_id |-> "u2"]}

\* owner u1 with up to two events and owner u2 with at most one
EnrichStores(field) ==
    {(IF DOMAIN a = {} THEN EmptyDict ELSE [u1 |-> a]) @@ b :
        a \in Collections({"c1", "c2"}, EnrichNodes(field)),
        b \in {EmptyDict} \cup {[u2 |-> [c1 |-> e]] : e \in EnrichNodes(field)}}

InitEnrich ==
    /\ Idle
    /\ arg = <<>>
    /\ PLAYERS \in {EmptyDict, [u1 |-> FullPlayer], [u1 |-> FullPlayer, u2 |-> OtherPlayer]}
    /\ \E coll \in {"CONVERSIONS", "IAP"} :
          /\ \E events \in EnrichStores(TimeField(coll)) : EventsIn(coll, events)
          /\ \/ raises_query = {} /\ raises_lookup \in {{}, {"u1"}}
             \/ raises_query = {coll} /\ raises_lookup = {}

NextEnrich ==
    \/ StartConversions
    \/ StartIaps
    \/ QueryReplies
    \/ SendLookup
    \/ LookupReplies
    \/ ReturnEnhanced

SpecEnrich == InitEnrich /\ [][NextEnrich]_vars

----------------------------------------------------------------------------
(* The script: bootstrap, then one section per entity kind *)

\* the limit of every section, and of the query by source
SectionLimit == 10
SourceLimit == 20

\* bootstrap either completes or shows an error and stops
BootstrapError ==
    IF env.cert = "absent" \/ env.url = "absent"
    THEN "Firebase configuration is missing"
    ELSE IF env.cert = "unconvertible"
    THEN "Failed to convert certificate source to dict"
    ELSE IF env.certificate = "raises"
    THEN "Failed to initialize certificate credential"
    ELSE IF \/ env.initialize_app = "raises"
            \/ (env.initialize_app = "already initialized" /\ env.get_app = "raises")
    THEN "Firebase initialization failed"
    ELSE "none"

Error(message) == [section |-> "bootstrap", kind |-> "error", rows |-> {<<message>>}]
Warning(section) == [section |-> section, kind |-> "warning", rows |-> {}]
Table(section, rows) == [section |-> section, kind |-> "dataframe", rows |-> rows]

\* a plausible slip: the error is shown but st.stop() is left out
Bootstrap_without_stop ==
    /\ pc = "bootstrap"
    /\ pc' = "android"
    /\ shown' = IF BootstrapError = "none" THEN shown
                ELSE Append(shown, Error(BootstrapError))
    /\ UNCHANGED <<store, in_flight, env, latest_android_players, latest_ios_players,
                   latest_conversions, latest_iaps, reads, fn, arg, ret>>

Bootstrap ==
    /\ pc = "bootstrap"
    /\ IF BootstrapError = "none"
       THEN pc' = "android" /\ shown' = shown
       ELSE pc' = "stopped" /\ shown' = Append(shown, Error(BootstrapError))
    /\ UNCHANGED <<store, in_flight, env, latest_android_players, latest_ios_players,
                   latest_conversions, latest_iaps, reads, fn, arg, ret>>

\* the columns of pd.DataFrame(records)
Columns(records) == UNION {DOMAIN records[i] : i \in DOMAIN records}

\* the cell of a record in a column: NaN where the record has no such key
Cell(r, column) == Get(r, column, NaN)

\* df[target] = df[column].apply(format_timestamp), for the <<column, target>>
\* pairs whose column the frame has
Applied(records, formats) == {f \in formats : f[1] \in Columns(records)}

\* some application of format_timestamp raises
FormatRaises(records, formats) ==
    \E f \in Applied(records, formats) : \E i \in DOMAIN records :
        format_timestamp(Cell(records[i], f[1])).kind = "raise"

\* the rows st.dataframe is given, as a set: the display columns the record
\* fills, the formatted ones in place of (or beside) their sources
Rows(records, formats, display_cols) ==
    {LET r == records[i]
         formatted == {f \in Applied(records, formats) : f[2] \in display_cols}
         plain == (display_cols \cap DOMAIN r) \ {f[2] : f \in formatted}
     IN  [c \in plain \cup {f[2] : f \in formatted} |->
            IF c \in plain THEN r[c]
            ELSE LET f == CHOOSE f \in formatted : f[2] = c
                 IN  format_timestamp(Cell(r, f[1])).value]
     : i \in DOMAIN records}

PlayerFormats ==
    {<<"Install_time", "Formatted_Install_time">>,
     <<"Last_Impression_time", "Last_Impression_time">>}
PlayerDisplay ==
    {"uid", "Platform", "Formatted_Install_time", "Source", "Geo", "IP", "Wins", "Goal",
     "Impressions", "Ad_Revenue", "Last_Impression_time"}
ConversionFormats ==
    {<<"time", "Formatted_time">>,
     <<"player_install_time", "Formatted_install_time">>,
     <<"player_last_impression_time", "Formatted_last_impression_time">>}
ConversionDisplay ==
    {"user_id", "conversion_id", "Formatted_time", "goal", "source", "player_platform",
     "player_source", "player_geo", "player_ip", "player_wins", "player_impressions",
     "player_ad_revenue", "Formatted_install_time", "Formatted_last_impression_time"}
IapFormats ==
    {<<"timeBought", "Formatted_time_bought">>,
     <<"player_install_time", "Formatted_install_time">>,
     <<"player_last_impression_time", "Formatted_last_impression_time">>}
IapDisplay ==
    {"user_id", "purchase_id", "name", "price", "Formatted_time_bought", "player_platform",
     "player_source", "player_geo", "player_ip", "player_wins", "player_impressions",
     "player_ad_revenue", "Formatted_install_time", "Formatted_last_impression_time"}
SourceFormats == {<<"Install_time", "Formatted_Install_time">>}

\* the rendering of a section: a warning for an empty list, else the table;
\* an exception out of format_timestamp ends the script
Show(section, records, formats, display_cols, next) ==
    IF records = <<>>
    THEN pc' = next /\ shown' = Append(shown, Warning(section))
    ELSE IF FormatRaises(records, formats)
    THEN pc' = "crashed" /\ shown' = shown
    ELSE /\ pc' = next
         /\ shown' = Append(shown, Table(section, Rows(records, formats, display_cols)))

FetchAndroid ==
    /\ pc = "android"
    /\ LET r == fetch_latest_android_players(SectionLimit) IN
           /\ latest_android_players' = r.result
           /\ reads' = reads \o r.reads
    /\ pc' = "android shown"
    /\ UNCHANGED <<store, in_flight, env, latest_ios_players, latest_conversions, latest_iaps,
                   shown, fn, arg, ret>>

ShowAndroid ==
    /\ pc = "android shown"
    /\ Show("android", latest_android_players, PlayerFormats, PlayerDisplay, "ios")
    /\ UNCHANGED <<store, in_flight, env, latest_android_players, latest_ios_players,
                   latest_conversions, latest_iaps, reads, fn, arg, ret>>

FetchIos ==
    /\ pc = "ios"
    /\ LET r == fetch_latest_ios_players(SectionLimit) IN
           /\ latest_ios_players' = r.result
           /\ reads' = reads \o r.reads
    /\ pc' = "ios shown"
    /\ UNCHANGED <<store, in_flight, env, latest_android_players, latest_conversions, latest_iaps,
                   shown, fn, arg, ret>>

ShowIos ==
    /\ pc = "ios shown"
    /\ Show("ios", latest_ios_players, PlayerFormats, PlayerDisplay, "conversions")
    /\ UNCHANGED <<store, in_flight, env, latest_android_players, latest_ios_players,
                   latest_conversions, latest_iaps, reads, fn, arg, ret>>

FetchConversions ==
    /\ pc = "conversions"
    /\ LET r == fetch_latest_conversions_with_player_data(SectionLimit) IN
           /\ latest_conversions' = r.result
           /\ reads' = reads \o r.reads
    /\ pc' = "conversions shown"
    /\ UNCHANGED <<store, in_flight, env, latest_android_players, latest_ios_players, latest_iaps,
                   shown, fn, arg, ret>>

ShowConversions ==
    /\ pc = "conversions shown"
    /\ Show("conversions", latest_conversions, ConversionFormats, ConversionDisplay, "iap")
    /\ UNCHANGED <<store, in_flight, env, latest_android_players, latest_ios_players,
                   latest_conversions, latest_iaps, reads, fn, arg, ret>>

FetchIaps ==
    /\ pc = "iap"
    /\ LET r == fetch_latest_iap_with_player_data(SectionLimit) IN
           /\ latest_iaps' = r.result
           /\ reads' = reads \o r.reads
    /\ pc' = "iap shown"
    /\ UNCHANGED <<store, in_flight, env, latest_android_players, latest_ios_players,
                   latest_conversions, shown, fn, arg, ret>>

ShowIaps ==
    /\ pc = "iap shown"
    /\ Show("iap", latest_iaps, IapFormats, IapDisplay, "source")
    /\ UNCHANGED <<store, in_flight, env, latest_android_players, latest_ios_players,
                   latest_conversions, latest_iaps, reads, fn, arg, ret>>

\* the expander: a query by source when the user typed one
QueryBySource ==
    /\ pc = "source"
    /\ IF env.source_input = ""
       THEN pc' = "done" /\ shown' = shown /\ reads' = reads
       ELSE LET r == fetch_players_by_source(env.source_input, SourceLimit) IN
            /\ reads' = reads \o r.reads
            /\ Show("source", r.result, SourceFormats,
                    Columns(r.result) \cup {"Formatted_Install_time"}, "done")
    /\ UNCHANGED <<store, in_flight, env, latest_android_players, latest_ios_players,
                   latest_conversions, latest_iaps, fn, arg, ret>>

\* what bootstrap can find
Envs ==
    [cert : {"absent", "dict", "mapping", "unconvertible"},
     url : {"absent", "present"},
     certificate : {"ok", "raises"},
     initialize_app : {"ok", "already initialized", "raises"},
     get_app : {"ok", "raises"},
     source_input : {"", "ads"}]

\* the environments that differ from a working one in at most one respect
WorkingEnv ==
    [cert |-> "dict", url |-> "present", certificate |-> "ok", initialize_app |-> "ok",
     get_app |-> "ok", source_input |-> ""]
NearWorkingEnvs ==
    {e \in Envs : Cardinality({k \in DOMAIN e : e[k] # WorkingEnv[k]}) <= 1}
        \cup {[WorkingEnv EXCEPT !.initialize_app = "already initialized", !.get_app = "raises"]}

\* a timestamp in the last five hours of year 9999
LastHours == <<MaxDay, 68400000>>

ScriptPlayers ==
    {a @@ b :
        a \in {EmptyDict} \cup {[u1 |-> n] : n \in
                 {Leaf,
                  [Platform |-> <<>>, Install_time |-> <<0, 1000>>, Source |-> "ads"],
                  [Platform |-> <<>>, Install_time |-> LastHours],
                  [Platform |-> ios, Install_time |-> <<0, 1000>>,
                   Last_Impression_time |-> <<0, 2000>>]}},
        b \in {EmptyDict} \cup {[u2 |-> n] : n \in
                 {[Platform |-> ios, Install_time |-> <<0, 2000>>], [Platform |-> <<>>]}}}

ScriptEvents(field) ==
    {EmptyDict,
     [u1 |-> [c1 |-> (field :> <<0, 1000>>) @@ [goal |-> "level5"]]],
     [u1 |-> [c1 |-> (field :> LastHours)], u2 |-> Leaf]}

\* a run of the script: a working environment on any of the stores, or an
\* environment that stops bootstrap on one store
Init ==
    /\ pc = "bootstrap"
    /\ latest_android_players = <<>>
    /\ latest_ios_players = <<>>
    /\ latest_conversions = <<>>
    /\ latest_iaps = <<>>
    /\ reads = <<>>
    /\ shown = <<>>
    /\ fn = "script"
    /\ arg = <<>>
    /\ ret = <<>>
    /\ in_flight = {}
    /\ raises_lookup = {}
    /\ env \in NearWorkingEnvs
    /\ \/ /\ PLAYERS \in ScriptPlayers
          /\ CONVERSIONS \in ScriptEvents("time")
          /\ IAP \in ScriptEvents("timeBought")
          /\ raises_query \in {{}, {"PLAYERS"}, {"CONVERSIONS"}, {"IAP"},
                               {"PLAYERS", "CONVERSIONS", "IAP"}}
          /\ BootstrapError = "none"
       \/ /\ PLAYERS = [u1 |-> FullPlayer]
          /\ CONVERSIONS = [u1 |-> [c1 |-> [time |-> <<0, 1000>>]]]
          /\ IAP = [u1 |-> [c1 |-> [timeBought |-> <<0, 2000>>]]]
          /\ raises_query = {}
          /\ BootstrapError # "none"

Next ==
    \/ Bootstrap
    \/ FetchAndroid
    \/ ShowAndroid
    \/ FetchIos
    \/ ShowIos
    \/ FetchConversions
    \/ ShowConversions
    \/ FetchIaps
    \/ ShowIaps
    \/ QueryBySource

Spec == Init /\ [][Next]_vars

----------------------------------------------------------------------------
(* Properties of normalize_platform and format_timestamp *)

\* the eight spellings of "ios" in upper and lower case
IsIosSpelling(x) ==
    /\ x # None
    /\ Len(x) = 3
    /\ x[1] \in {"i", "I"}
    /\ x[2] \in {"o", "O"}
    /\ x[3] \in {"s", "S"}

\* C8: for an absent, empty or any string input, normalize_platform returns
\* Android or iOS, it returns iOS exactly for the spellings of "ios" in any
\* case, and applying it to its own output returns that output again.
C8_NormalizeCanonical ==
    /\ fn \in {"normalize_platform", "normalize_platform twice"} =>
          /\ ret[1] \in {Android, iOS}
          /\ (ret[1] = iOS) <=> IsIosSpelling(arg[1])
    /\ fn = "normalize_platform twice" => ret[2] = ret[1]

\* a mixed-case spelling was normalized to iOS, and normalizing again kept it
C8_Witness ==
    /\ fn = "normalize_platform twice"
    /\ arg[1] = <<"I", "o", "S">>
    /\ ret = <<iOS, iOS>>

\* the conversion of t to a date-time shifted by +5 hours fails
ConversionFails(t) ==
    \/ t = NotNumeric
    \/ t[1] > MaxDay
    \/ t[1] + (t[2] \div 1000 + ShiftSeconds) \div SecPerDay > MaxDay

\* HH:MM:SS YYYY-MM-DD of t shifted by +5 hours
ShiftedRendering(t) ==
    LET seconds == (t[2] \div 1000) + ShiftSeconds
    IN  strftime(t[1] + seconds \div SecPerDay, seconds % SecPerDay)

\* C10: format_timestamp never propagates an error: "Not available" for a
\* missing, not-a-number or zero value; "Invalid date" whenever the conversion
\* fails, overflow included; otherwise the rendering shifted by +5 hours.
C10_FormatNeverRaises ==
    fn = "format_timestamp" =>
        LET t == arg[1] IN
        /\ ret.kind = "return"
        /\ ret.value = (IF t \in {None, NaN, Zero} THEN NotAvailable
                        ELSE IF ConversionFails(t) THEN InvalidDate
                        ELSE ShiftedRendering(t))

----------------------------------------------------------------------------
(* Properties of the fetchers *)

PlayerFetchers ==
    {"fetch_latest_players", "fetch_latest_android_players",
     "fetch_latest_ios_players", "fetch_players_by_source"}
ConversionFetcher == "fetch_latest_conversions_with_player_data"
IapFetcher == "fetch_latest_iap_with_player_data"
EventFetchers == {ConversionFetcher, IapFetcher}

\* the limit of the call made
LimitOf(args) == args[Len(args)]

\* the defining timestamp field of what the fetcher returns
TimestampField(name) ==
    IF name = ConversionFetcher THEN "time"
    ELSE IF name = IapFetcher THEN "timeBought"
    ELSE "Install_time"

\* the collection an event fetcher reads, and the key it tags an event with
CollectionOf(name) == IF name = IapFetcher THEN IAP ELSE CONVERSIONS
PathOf(name) == IF name = IapFetcher THEN "IAP" ELSE "CONVERSIONS"
IdKey(name) == IF name = IapFetcher THEN "purchase_id" ELSE "conversion_id"

\* the owners the range query of the event fetcher returned
ReplyOf(name, limit) ==
    IF name = IapFetcher
    THEN limit_to_last(IAP, IapOwnerWindow)
    ELSE order_by_child_limit_to_last(CONVERSIONS, "time", limit * ConversionOverFetch)

\* the list the event fetcher enriches
SelectedOf(name, limit) ==
    IF name = IapFetcher THEN SelectIaps(limit) ELSE SelectConversions(limit)

\* the (owner, event id) pairs of coll that hold a mapping under a mapping
MappingEvents(coll, owners) ==
    {<<u, c>> \in owners \X {"c1", "c2"} :
        /\ isinstance_dict(coll[u])
        /\ c \in DOMAIN coll[u]
        /\ isinstance_dict(coll[u][c])}

Min(a, b) == IF a <= b THEN a ELSE b

\* C1: every fetcher called with limit N returns at most N records, and each
\* adjacent pair of them that carries the timestamp field is in descending
\* order of it.
C1_BoundedAndDescending ==
    fn \in PlayerFetchers \cup EventFetchers =>
        LET field == TimestampField(fn) IN
        /\ Len(ret) <= LimitOf(arg)
        /\ \A i \in 1..(Len(ret) - 1) :
              (field \in DOMAIN ret[i] /\ field \in DOMAIN ret[i + 1])
                  => ~TsLess(ret[i][field], ret[i + 1][field])

\* C2: the conversions and purchases fetchers return the N events with the
\* greatest timestamps among all mapping-shaped events of the whole collection
\* (all of them when there are fewer than N): no event left out is newer than
\* a returned one.
C2_LatestOfWholeCollection ==
    (fn \in EventFetchers /\ PathOf(fn) \notin raises_query) =>
        LET coll == CollectionOf(fn)
            field == TimestampField(fn)
            all == MappingEvents(coll, DOMAIN coll)
            got == {<<ret[i]["user_id"], ret[i][IdKey(fn)]>> : i \in DOMAIN ret}
        IN  /\ Len(ret) = Min(LimitOf(arg), Cardinality(all))
            /\ \A e \in all \ got : \A i \in DOMAIN ret :
                  ~TsLess(SortKey(ret[i], field), SortKey(coll[e[1]][e[2]], field))

\* C7: when the collection holds fewer than N mapping-shaped events, the fetch
\* of the latest N returns exactly those events; an empty collection returns
\* the empty list.
C7_FewerThanLimit ==
    (fn \in EventFetchers /\ PathOf(fn) \notin raises_query) =>
        LET coll == CollectionOf(fn)
            all == MappingEvents(coll, DOMAIN coll)
        IN  Cardinality(all) < LimitOf(arg) =>
                /\ Len(ret) = Cardinality(all)
                /\ \A e \in all : \E i \in DOMAIN ret :
                      ret[i] = Enhance(Merge((IdKey(fn) :> e[2]) @@ [user_id |-> e[1]],
                                             coll[e[1]][e[2]]))


\* the reference of the platform-filtered fetch: read all players, normalize
\* each Platform, keep the target, sort by Install_time descending, take N
FilterAfterDownload(target, limit) ==
    LET everyone == PlayerRecords(KeysAscending(DOMAIN PLAYERS))
        kept == SelectSeq(everyone, LAMBDA r : r["Platform"] = target)
    IN  FirstN(SortDesc(kept, "Install_time"), limit)

\* the Install_time sort keys of a list of records, in order
InstallTimes(records) == [i \in DOMAIN records |-> SortKey(records[i], "Install_time")]

\* C3: the platform-filtered player fetch returns the same records as reading
\* all players, normalizing, filtering on the normalized platform, sorting and
\* taking the first N (compared up to the order of equal timestamps).
C3_SameAsFilterAfterDownload ==
    (fn \in {"fetch_latest_android_players", "fetch_latest_ios_players"}
         /\ "PLAYERS" \notin raises_query) =>
        LET target == IF fn = "fetch_latest_ios_players" THEN iOS ELSE Android
            reference == FilterAfterDownload(target, LimitOf(arg))
        IN  /\ InstallTimes(ret) = InstallTimes(reference)
            /\ \A i \in DOMAIN ret : ret[i]["Platform"] = target

\* C4: the flattened list holds exactly one record for every mapping-shaped
\* event under a mapping-shaped owner of the reply, with user_id the owner key
\* and conversion_id / purchase_id the event key, and no other record.
C4_FlattenTagsOwnerAndEvent ==
    (fn \in EventFetchers /\ PathOf(fn) \notin raises_query) =>
        LET coll == CollectionOf(fn)
            data == ReplyOf(fn, LimitOf(arg))
            flat == Flatten(coll, data, IdKey(fn))
            events == MappingEvents(coll, Range(data))
        IN  /\ Len(flat) = Cardinality(events)
            /\ \A e \in events :
                  Cardinality({i \in DOMAIN flat :
                      flat[i]["user_id"] = e[1] /\ flat[i][IdKey(fn)] = e[2]}) = 1

PlayerKeys ==
    {"player_geo", "player_source", "player_platform", "player_ip", "player_wins",
     "player_impressions", "player_ad_revenue", "player_install_time",
     "player_last_impression_time"}

\* C5: the enrichment loop yields one record per selected event, in the same
\* order, and each record agrees with its event on every key the event had,
\* the only new keys being player_ keys.
C5_EnrichmentKeepsEvent ==
    (fn \in EventFetchers /\ PathOf(fn) \notin raises_query) =>
        LET latest == SelectedOf(fn, LimitOf(arg)) IN
        /\ Len(ret) = Len(latest)
        /\ \A i \in DOMAIN latest :
              /\ \A k \in DOMAIN latest[i] : ret[i][k] = latest[i][k]
              /\ DOMAIN ret[i] \ DOMAIN latest[i] \subseteq PlayerKeys

\* the point lookup of PLAYERS/{uid} fails: it raises, or the reply is absent,
\* no mapping, or an empty mapping
LookupFails(uid) ==
    \/ uid \in raises_lookup
    \/ uid \notin DOMAIN PLAYERS
    \/ PLAYERS[uid] = Leaf
    \/ PLAYERS[uid] = EmptyDict

\* C6: an event whose owning player's lookup fails is in the enriched result
\* unmodified, with no player_ field added.
C6_FailedLookupKeepsEvent ==
    (fn \in EventFetchers /\ PathOf(fn) \notin raises_query) =>
        LET coll == CollectionOf(fn)
            latest == SelectedOf(fn, LimitOf(arg))
            events == MappingEvents(coll, Range(ReplyOf(fn, LimitOf(arg))))
        IN  \A e \in events : \A i \in DOMAIN latest :
                (/\ LookupFails(e[1])
                 /\ latest[i] = Merge((IdKey(fn) :> e[2]) @@ [user_id |-> e[1]],
                                      coll[e[1]][e[2]]))
                    => ret[i] = latest[i]

----------------------------------------------------------------------------
(* Properties of the script *)

\* the range queries issued so far, in order
Queries == SelectSeq(reads, LAMBDA r : r[1] = "query")

\* the range queries of the four sections, in the script's order
SectionQueries ==
    <<Query("PLAYERS"), Query("PLAYERS"), Query("CONVERSIONS"), Query("IAP")>>

\* C9: once bootstrap has succeeded, a failing fetch leaves its entity kind
\* empty, and the Android, iOS, conversions and purchases fetches are all
\* executed, in that order, whatever the earlier ones returned: the script
\* does not end before the four of them have run.
C9_EverySectionFetched ==
    /\ (pc \notin {"bootstrap", "stopped", "android"} /\ "PLAYERS" \in raises_query)
           => latest_android_players = <<>>
    /\ (pc \in {"ios shown", "conversions", "conversions shown", "iap", "iap shown",
                "source", "done"} /\ "PLAYERS" \in raises_query)
           => latest_ios_players = <<>>
    /\ (pc \in {"conversions shown", "iap", "iap shown", "source", "done"}
            /\ "CONVERSIONS" \in raises_query)
           => latest_conversions = <<>>
    /\ (pc \in {"iap shown", "source", "done"} /\ "IAP" \in raises_query)
           => latest_iaps = <<>>
    /\ pc \in {"done", "crashed"} =>
           /\ Len(Queries) >= Len(SectionQueries)
           /\ SubSeq(Queries, 1, Len(SectionQueries)) = SectionQueries

\* the endpoint or the credential is absent, or the construction of the
\* credential or the initialization of the app fails
BootstrapFails ==
    \/ env.cert = "absent"
    \/ env.url = "absent"
    \/ env.cert = "unconvertible"
    \/ env.certificate = "raises"
    \/ env.initialize_app = "raises"
    \/ (env.initialize_app = "already initialized" /\ env.get_app = "raises")

\* C11: bootstrap gate. When the endpoint or the credential is absent, or the
\* credential or the app cannot be set up, the run shows an error and stops:
\* it never leaves bootstrap for a section, it issues no store read (range
\* query or point lookup) and it renders no table or warning. A store read is
\* only ever seen in a run whose bootstrap has completed successfully.
C11_BootstrapGate ==
    /\ BootstrapFails =>
           /\ pc \in {"bootstrap", "stopped"}
           /\ reads = <<>>
           /\ \A i \in DOMAIN shown : shown[i].kind = "error"
           /\ pc = "stopped" => Len(shown) = 1
    /\ reads # <<>> => (~BootstrapFails /\ pc \notin {"bootstrap", "stopped"})
    /\ pc = "bootstrap" => (reads = <<>> /\ shown = <<>>)

\* a run stopped by a failing bootstrap, its error on screen and the store
\* (which holds a player, a conversion and a purchase) untouched
C11_Witness ==
    /\ BootstrapFails
    /\ pc = "stopped"
    /\ Len(shown) = 1
    /\ shown[1].kind = "error"
    /\ reads = <<>>
    /\ PLAYERS # EmptyDict

----------------------------------------------------------------------------
(* Properties of the enrichment loop *)

\* the point lookups issued so far, in order
Lookups == SelectSeq(reads, LAMBDA r : r[1] = "lookup")

\* the lookups of the first n events of the list being enriched
LookupsOfFirst(n) == [j \in 1..n |-> Lookup(Latest[j].user_id)]

\* C12: in a conversions or purchases fetch the single range query comes
\* first and is answered before any lookup; the lookups are issued one at a
\* time (never two requests outstanding), the lookup of result[i] only after
\* that of result[i-1] has been answered, one per event of the truncated list
\* even when events share an owner; a fetch that returns N events has issued
\* exactly N lookups, at most the limit, and none for an event cut off by the
\* truncation.
C12_LookupsOneByOneInResultOrder ==
    fn \in EventFetchers =>
        /\ Cardinality(in_flight) <= 1
        /\ reads[1] = Query(PathOf(fn))
        /\ Len(Queries) = 1
        /\ pc = "range query" => (in_flight = {Request(0, reads[1])} /\ Lookups = <<>>)
        /\ pc = "loop" => (in_flight = {} /\ Lookups = LookupsOfFirst(Len(ret)))
        /\ pc = "point lookup" =>
               /\ Lookups = LookupsOfFirst(Len(ret) + 1)
               /\ in_flight = {Request(Len(ret) + 1, Lookups[Len(ret) + 1])}
        /\ pc = "return" =>
               /\ in_flight = {}
               /\ Len(Lookups) = Len(ret)
               /\ Len(ret) <= LimitOf(arg)
               /\ PathOf(fn) \notin raises_query =>
                      /\ Lookups = LookupsOfFirst(Len(ret))
                      /\ Len(ret) = Len(SelectedOf(fn, LimitOf(arg)))
                      /\ \A i \in DOMAIN ret :
                             ret[i][IdKey(fn)] = Latest[i][IdKey(fn)]

\* a fetch has returned two events of the same owner, after two lookups of that
\* owner, and left a third event out
C12_Witness ==
    /\ fn \in EventFetchers
    /\ pc = "return"
    /\ Len(ret) = 2
    /\ Lookups = <<Lookup("u1"), Lookup("u1")>>
    /\ LimitOf(arg) = 2
    /\ Cardinality(MappingEvents(CollectionOf(fn), DOMAIN CollectionOf(fn))) = 3

----------------------------------------------------------------------------
(* Properties of the sort *)

SortingFetchers ==
    {"fetch_latest_android_players", "fetch_latest_ios_players",
     "fetch_players_by_source"} \cup EventFetchers

\* the list the fetcher sorts: the records it built from the reply of its query
FetchedBy(name, args) ==
    IF name \in EventFetchers
    THEN Flatten(CollectionOf(name), ReplyOf(name, LimitOf(args)), IdKey(name))
    ELSE PlayerRecords(
             IF name = "fetch_players_by_source"
             THEN order_by_child_equal_to_limit_to_last(
                      PLAYERS, "Source", args[1], LimitOf(args) * PlayerOverFetch)
             ELSE order_by_child_equal_to_limit_to_last(
                      PLAYERS, "Platform",
                      IF name = "fetch_latest_ios_players" THEN ios ELSE <<>>,
                      LimitOf(args) * PlayerOverFetch))

HasTimestamp(x, field) == field \in DOMAIN x
PositiveTimestamp(x, field) == HasTimestamp(x, field) /\ TsLess(Zero, x[field])
PositiveIn(s, field) == {i \in DOMAIN s : PositiveTimestamp(s[i], field)}

\* C13: in every fetcher that sorts, a record without the timestamp field is
\* ordered as a record of timestamp 0: the result is descending once 0 stands
\* for the absent field, no such record precedes a record of positive
\* timestamp, one is in the result of limit N only when fewer than N of the
\* fetched records have a positive timestamp (all of which are then in the
\* result), and the fetch does not fail: it returns min(N, fetched) records.
C13_AbsentTimestampSortsAsZero ==
    fn \in SortingFetchers =>
        LET field == TimestampField(fn)
            fetched == FetchedBy(fn, arg)
            N == LimitOf(arg)
        IN  /\ Len(ret) = Min(N, Len(fetched))
            /\ \A i, j \in DOMAIN ret :
                  (i < j /\ ~HasTimestamp(ret[i], field))
                      => ~PositiveTimestamp(ret[j], field)
            /\ \A i \in DOMAIN ret : i < Len(ret) =>
                  ~TsLess(Get(ret[i], field, Zero), Get(ret[i + 1], field, Zero))
            /\ (\E i \in DOMAIN ret : ~HasTimestamp(ret[i], field)) =>
                  /\ Cardinality(PositiveIn(fetched, field)) < N
                  /\ Cardinality(PositiveIn(ret, field))
                         = Cardinality(PositiveIn(fetched, field))

\* a record without the field was fetched first and returned last, behind a
\* record of positive timestamp, and another record without it was cut off
C13_Witness ==
    /\ fn \in SortingFetchers
    /\ LET field == TimestampField(fn)
           fetched == FetchedBy(fn, arg)
       IN  /\ Len(fetched) = 3
           /\ ~HasTimestamp(fetched[1], field)
           /\ Len(ret) = 2
           /\ PositiveTimestamp(ret[1], field)
           /\ ~HasTimestamp(ret[2], field)

====
